---- MODULE Spec2Model ----
(***************************************************************************)
(* Model of src/main.py: the FastAPI backend that runs the OAuth2          *)
(* authorization-code-with-PKCE flow against the Kerliix provider.         *)
(*                                                                         *)
(* The handlers are `async def` coroutines on one event loop: a handler    *)
(* runs without interleaving from its entry to its first `await` and from  *)
(* an `await` to its return, so each handler is one action per segment.    *)
(* The awaited SDK calls (get_auth_url, exchangeCodeForToken, getUserInfo, *)
(* revokeToken) are the suspension points; their results are inputs.       *)
(*                                                                         *)
(* Strings are drawn from small integer pools; None is 0 and "" is -1.     *)
(***************************************************************************)
EXTENDS Integers, Sequences, FiniteSets, TLC

\* ---------------------------------------------------------------- bounds
MaxTasks == 2         \* requests suspended at an await at the same time
MaxRepeats == 1       \* draws that repeat a value, where repeats are allowed

\* ---------------------------------------------------------------- values
None == 0
Empty == -1
Tasks == 1..MaxTasks
States == 1..2        \* pool of values secrets.token_urlsafe(16) draws from
SessionIds == 1..2    \* pool of values secrets.token_urlsafe(24) draws from
Verifiers == 1..2     \* pool of code verifiers the SDK may return
Tokens == {1}         \* pool of access tokens the provider may return
Codes == {1}          \* pool of authorization codes
Errors == {1}         \* pool of provider error codes

\* Python truthiness of an optional string: None and "" are falsy.
Falsy(v) == v \in {None, Empty}

\* What a query parameter or a cookie can hold: absent, empty or a value.
Optional(S) == S \cup {None, Empty}

\* How an awaited SDK call ends: it returns, raises OAuthError, or raises
\* some other Exception.
Outcomes == {"ok", "OAuthError", "Exception"}

VARIABLES
    PKCE_STORE,         \* dict: state -> code_verifier
    SESSION_STORE,      \* dict: session_id -> [token |-> [access_token |-> t]]
    tasks,              \* the requests suspended at an await
    response,           \* the request answered last, with its response
    issued_state,       \* how often secrets.token_urlsafe(16) returned each value
    issued_session_id,  \* how often secrets.token_urlsafe(24) returned each value
    registered,         \* per state: how often login wrote PKCE_STORE[state]
    obtained,           \* per state: how many callbacks got its code verifier
    created,            \* per state: how many sessions its callbacks created
    expired             \* the states whose record in PKCE_STORE is older than the TTL

stores == <<PKCE_STORE, SESSION_STORE>>
history == <<registered, obtained, created, expired>>
vars == <<PKCE_STORE, SESSION_STORE, tasks, response, issued_state, issued_session_id,
          registered, obtained, created, expired>>

\* ---------------------------------------------------------------- dicts
\* dict.get(k, None)
DictGet(d, k) == IF k \in DOMAIN d THEN d[k] ELSE None

\* the dict after d[k] = v
DictSet(d, k, v) == [x \in DOMAIN d \cup {k} |-> IF x = k THEN v ELSE d[x]]

\* the dict after d.pop(k, None)
DictPop(d, k) == [x \in DOMAIN d \ {k} |-> d[x]]

EmptyDict == [x \in {} |-> None]

Bump(f, k) == [f EXCEPT ![k] = @ + 1]

\* ---------------------------------------------------------------- requests
\* One request: the handler that serves it, where it stands, what it carried
\* (query parameters error, code, state; cookie session_id; for login, state
\* is the one it generated), the locals it holds across its await, how the
\* awaited SDK call ended (outcome), and the response it got (status 0: none
\* yet).
NewRequest(kind) ==
    [kind |-> kind, pc |-> "await",
     error |-> None, code |-> None, state |-> None, session_id |-> None,
     code_verifier |-> None, access_token |-> None,
     outcome |-> "",
     status |-> 0, detail |-> "", set_cookie |-> "", cookie_value |-> None,
     revoked |-> "", token_out |-> None]

Idle == [NewRequest("") EXCEPT !.pc = "idle"]

\* raise HTTPException(status_code, detail) / return a response
Respond(r, status, detail) ==
    [r EXCEPT !.pc = "done", !.status = status, !.detail = detail]

Pending(t, kind) ==
    /\ tasks[t].kind = kind
    /\ tasks[t].pc = "await"

FreeTasks == {t \in Tasks : tasks[t] = Idle}
FirstFree == CHOOSE t \in FreeTasks : \A u \in FreeTasks : t <= u

\* A request enters its handler and runs to its first await, or to its response.
Arrive(r) ==
    IF r.pc = "done"
    THEN /\ response' = r
         /\ UNCHANGED tasks
    ELSE /\ FreeTasks # {}
         /\ tasks' = [tasks EXCEPT ![FirstFree] = r]
         /\ UNCHANGED response

\* A suspended request runs from its await to its response.
Finish(t, r) ==
    /\ tasks' = [tasks EXCEPT ![t] = Idle]
    /\ response' = r

Init ==
    /\ PKCE_STORE = EmptyDict
    /\ SESSION_STORE = EmptyDict
    /\ tasks = [t \in Tasks |-> Idle]
    /\ response = Idle
    /\ issued_state = [s \in States |-> 0]
    /\ issued_session_id = [s \in SessionIds |-> 0]
    /\ registered = [s \in States |-> 0]
    /\ obtained = [s \in States |-> 0]
    /\ created = [s \in States |-> 0]
    /\ expired = {}

\* ---------------------------------------------------------------- /login
\* login, up to `await kerliix_client.get_auth_url(...)`
login_start(state) ==
    /\ Arrive([NewRequest("login") EXCEPT !.state = state])
    /\ issued_state' = Bump(issued_state, state)
    /\ UNCHANGED <<stores, issued_session_id, history>>

\* `if not code_verifier`
NoVerifier_isnone(code_verifier) == code_verifier = None
NoVerifier(code_verifier) == Falsy(code_verifier)

\* `PKCE_STORE[state] = code_verifier`
LoginStore_swapped(state, code_verifier) == DictSet(PKCE_STORE, code_verifier, state)
LoginStore(state, code_verifier) == DictSet(PKCE_STORE, state, code_verifier)

\* login, from the return of get_auth_url: code_verifier is what the SDK gave;
\* a record written now is new, whatever the age of the one it replaces
login_return(t, code_verifier) ==
    /\ Pending(t, "login")
    /\ IF NoVerifier(code_verifier)
       THEN /\ Finish(t, [Respond(tasks[t], 500, "PKCE code verifier not generated")
                            EXCEPT !.outcome = "ok"])
            /\ UNCHANGED <<PKCE_STORE, registered, expired>>
       ELSE /\ PKCE_STORE' = LoginStore(tasks[t].state, code_verifier)
            /\ registered' = Bump(registered, tasks[t].state)
            /\ expired' = expired \ {tasks[t].state}
            /\ Finish(t, [Respond(tasks[t], 307, "redirect to provider")
                            EXCEPT !.outcome = "ok", !.code_verifier = code_verifier])
    /\ UNCHANGED <<SESSION_STORE, issued_state, issued_session_id, obtained, created>>

\* get_auth_url raised: nothing in login catches it
login_raise(t) ==
    /\ Pending(t, "login")
    /\ Finish(t, [Respond(tasks[t], 500, "Internal Server Error")
                    EXCEPT !.outcome = "Exception"])
    /\ UNCHANGED <<stores, issued_state, issued_session_id, history>>

\* ---------------------------------------------------------------- /callback
\* `if error`
ProviderDenied_never(error) == FALSE
ProviderDenied(error) == ~Falsy(error)

\* `if not code or not state`
MissingCodeOrState_both(code, state) == Falsy(code) /\ Falsy(state)
MissingCodeOrState(code, state) == Falsy(code) \/ Falsy(state)

\* `if not code_verifier`
VerifierMissing_never(code_verifier) == FALSE
VerifierMissing(code_verifier) == Falsy(code_verifier)

\* PKCE_STORE after `PKCE_STORE.pop(state, None)`
TakeVerifier_get(state) == PKCE_STORE
TakeVerifier(state) == DictPop(PKCE_STORE, state)

\* the detail of the 400 raised when the pop finds no code verifier
UnknownState == "Unknown or expired state (PKCE code verifier missing)"

\* callback, up to `await kerliix_client.exchangeCodeForToken(...)`
callback_start(error, code, state) ==
    LET r == [NewRequest("callback") EXCEPT !.error = error, !.code = code, !.state = state]
        code_verifier == DictGet(PKCE_STORE, state)
    IN  /\ UNCHANGED <<SESSION_STORE, issued_state, issued_session_id, registered, created>>
        /\ IF ProviderDenied(error)
           THEN /\ Arrive(Respond(r, 400, "provider error"))
                /\ UNCHANGED <<PKCE_STORE, obtained, expired>>
           ELSE IF MissingCodeOrState(code, state)
           THEN /\ Arrive(Respond(r, 400, "Missing code or state in callback"))
                /\ UNCHANGED <<PKCE_STORE, obtained, expired>>
           ELSE /\ PKCE_STORE' = TakeVerifier(state)
                /\ expired' = expired \cap DOMAIN PKCE_STORE'
                /\ IF VerifierMissing(code_verifier)
                   THEN /\ Arrive(Respond(r, 400, UnknownState))
                        /\ UNCHANGED obtained
                   ELSE /\ Arrive([r EXCEPT !.code_verifier = code_verifier])
                        /\ obtained' = Bump(obtained, state)

\* the redirect of a callback whose exchange returned, with _set_session_cookie
CallbackRedirect_nocookie(r, session_id) ==
    Respond(r, 307, "redirect to frontend")
CallbackRedirect(r, session_id) ==
    [Respond(r, 307, "redirect to frontend")
        EXCEPT !.set_cookie = "set", !.cookie_value = session_id]

\* the response of a callback whose exchange raised
CallbackFailure_all500(r) == Respond(r, 500, "Token exchange failed")
CallbackFailure_exc400(r) == Respond(r, 400, "oauth_error")
CallbackFailure(r) ==
    IF r.outcome = "OAuthError"
    THEN Respond(r, 400, "oauth_error")
    ELSE Respond(r, 500, "Token exchange failed")

\* SESSION_STORE after callback's try/except around exchangeCodeForToken and
\* the session creation that follows it
CallbackStore_always(outcome, token, session_id) ==
    DictSet(SESSION_STORE, session_id, [token |-> [access_token |-> token]])
CallbackStore(outcome, token, session_id) ==
    IF outcome = "ok"
    THEN DictSet(SESSION_STORE, session_id, [token |-> [access_token |-> token]])
    ELSE SESSION_STORE

\* PKCE_STORE after callback's try/except: the popped record is not put back
CallbackPkce_restore(t, outcome) ==
    IF outcome = "ok" THEN PKCE_STORE
    ELSE DictSet(PKCE_STORE, tasks[t].state, tasks[t].code_verifier)
CallbackPkce(t, outcome) == PKCE_STORE

\* callback, from the end of exchangeCodeForToken
callback_return(t, outcome, token, session_id) ==
    /\ Pending(t, "callback")
    /\ UNCHANGED <<issued_state, registered, obtained, expired>>
    /\ PKCE_STORE' = CallbackPkce(t, outcome)
    /\ SESSION_STORE' = CallbackStore(outcome, token, session_id)
    /\ LET r == [tasks[t] EXCEPT !.outcome = outcome]
       IN  IF outcome = "ok"
           THEN /\ issued_session_id' = Bump(issued_session_id, session_id)
                /\ created' = Bump(created, r.state)
                /\ Finish(t, CallbackRedirect(r, session_id))
           ELSE /\ UNCHANGED <<issued_session_id, created>>
                /\ Finish(t, CallbackFailure(r))

\* ---------------------------------------------------------------- sessions
\* `if not session_id`
NoCookie_never(session_id) == FALSE
NoCookie_isnone(session_id) == session_id = None
NoCookie(session_id) == Falsy(session_id)

\* `stored = SESSION_STORE.get(session_id)` followed by `if not stored`
NoStored(session_id) == session_id \notin DOMAIN SESSION_STORE

\* `token_obj = stored["token"]`, then its access_token
AccessToken(session_id) == SESSION_STORE[session_id].token.access_token

\* ---------------------------------------------------------------- /me
\* me, up to `await kerliix_client.getUserInfo(access_token)`
me_start(session_id) ==
    LET r == [NewRequest("me") EXCEPT !.session_id = session_id]
    IN  /\ UNCHANGED <<stores, issued_state, issued_session_id, history>>
        /\ IF NoCookie(session_id)
           THEN Arrive(Respond(r, 401, "No session"))
           ELSE IF NoStored(session_id)
           THEN Arrive(Respond(r, 401, "No tokens found for session"))
           ELSE Arrive([r EXCEPT !.access_token = AccessToken(session_id)])

\* SESSION_STORE after me's try/except around getUserInfo
MeStore_writeback(t, outcome) ==
    DictSet(SESSION_STORE, tasks[t].session_id,
            [token |-> [access_token |-> tasks[t].access_token]])
MeStore_drop(t, outcome) ==
    IF outcome = "OAuthError" THEN DictPop(SESSION_STORE, tasks[t].session_id)
    ELSE SESSION_STORE
MeStore(t, outcome) == SESSION_STORE

\* me, from the end of getUserInfo
me_return(t, outcome) ==
    /\ Pending(t, "me")
    /\ UNCHANGED <<PKCE_STORE, issued_state, issued_session_id, history>>
    /\ SESSION_STORE' = MeStore(t, outcome)
    /\ LET r == [tasks[t] EXCEPT !.outcome = outcome]
       IN  CASE outcome = "OAuthError" -> Finish(t, Respond(r, 401, "oauth_error"))
             [] outcome = "Exception" -> Finish(t, Respond(r, 500, "Failed to fetch user info"))
             [] outcome = "ok" -> Finish(t, Respond(r, 200, "user_info"))

\* ---------------------------------------------------------------- /revoke
\* SESSION_STORE when revoke suspends at revokeToken: nothing is removed yet
RevokeEarly_pop(session_id) == DictPop(SESSION_STORE, session_id)
RevokeEarly(session_id) == SESSION_STORE

\* revoke, up to `await kerliix_client.revokeToken(access_token)`
revoke_start(session_id) ==
    LET r == [NewRequest("revoke") EXCEPT !.session_id = session_id]
    IN  /\ UNCHANGED <<PKCE_STORE, issued_state, issued_session_id, history>>
        /\ IF NoCookie(session_id)
           THEN /\ Arrive(Respond(r, 401, "No session"))
                /\ UNCHANGED SESSION_STORE
           ELSE IF NoStored(session_id)
           THEN /\ Arrive(Respond(r, 400, "No token to revoke"))
                /\ UNCHANGED SESSION_STORE
           ELSE /\ Arrive([r EXCEPT !.access_token = AccessToken(session_id)])
                /\ SESSION_STORE' = RevokeEarly(session_id)

\* SESSION_STORE after revoke's try/except around revokeToken
RevokeStore_keep(t, outcome) ==
    IF outcome = "Exception" THEN SESSION_STORE
    ELSE DictPop(SESSION_STORE, tasks[t].session_id)
RevokeStore(t, outcome) == DictPop(SESSION_STORE, tasks[t].session_id)

\* revoke, from the end of revokeToken
revoke_return(t, outcome) ==
    /\ Pending(t, "revoke")
    /\ UNCHANGED <<PKCE_STORE, issued_state, issued_session_id, history>>
    /\ SESSION_STORE' = RevokeStore(t, outcome)
    /\ Finish(t, [Respond(tasks[t], 200, "revoke result")
                    EXCEPT !.outcome = outcome,
                           !.revoked = IF outcome = "ok" THEN "true" ELSE "false",
                           !.set_cookie = "deleted"])

\* ---------------------------------------------------------------- /tokens
tokens(session_id) ==
    LET r == [NewRequest("tokens") EXCEPT !.session_id = session_id]
    IN  /\ UNCHANGED <<stores, issued_state, issued_session_id, history>>
        /\ IF NoCookie(session_id)
           THEN Arrive(Respond(r, 401, "No session"))
           ELSE IF NoStored(session_id)
           THEN Arrive(Respond(r, 404, "No token for session"))
           ELSE Arrive([Respond(r, 200, "token") EXCEPT !.token_out = AccessToken(session_id)])

\* ---------------------------------------------------------------- behaviours
\* The steps that do not draw from secrets.token_urlsafe.
Serve ==
    \/ \E t \in Tasks, cv \in Optional(Verifiers) : login_return(t, cv)
    \/ \E t \in Tasks : login_raise(t)
    \/ \E e \in Errors \cup {None}, c \in Optional(Codes), s \in Optional(States) :
            callback_start(e, c, s)
    \/ \E session_id \in Optional(SessionIds) : me_start(session_id)
    \/ \E t \in Tasks, outcome \in Outcomes : me_return(t, outcome)
    \/ \E session_id \in Optional(SessionIds) : revoke_start(session_id)
    \/ \E t \in Tasks, outcome \in Outcomes : revoke_return(t, outcome)
    \/ \E session_id \in Optional(SessionIds) : tokens(session_id)

\* secrets.token_urlsafe never repeats a value: 128 and 192 random bits.
Fresh(issued) == {v \in DOMAIN issued : issued[v] = 0}

Next ==
    \/ Serve
    \/ \E state \in Fresh(issued_state) : login_start(state)
    \/ \E t \in Tasks, outcome \in Outcomes, token \in Tokens,
          session_id \in Fresh(issued_session_id) :
            callback_return(t, outcome, token, session_id)

Spec == Init /\ [][Next]_vars

\* secrets.token_urlsafe may return any value of its range, one already drawn
\* included.
RECURSIVE Draws(_, _)
Draws(issued, S) ==
    IF S = {} THEN 0
    ELSE LET v == CHOOSE x \in S : TRUE IN issued[v] + Draws(issued, S \ {v})

Repeats(issued) ==
    Draws(issued, DOMAIN issued) - Cardinality(DOMAIN issued \ Fresh(issued))

Reusable(issued) ==
    IF Repeats(issued_state) + Repeats(issued_session_id) < MaxRepeats
    THEN DOMAIN issued
    ELSE Fresh(issued)

NextCollide ==
    \/ Serve
    \/ \E state \in Reusable(issued_state) : login_start(state)
    \/ \E t \in Tasks, outcome \in Outcomes, token \in Tokens,
          session_id \in Reusable(issued_session_id) :
            callback_return(t, outcome, token, session_id)

SpecCollide == Init /\ [][NextCollide]_vars

\* Time passes: the record of a state grows older than the TTL. Nothing in
\* main.py reads a clock or stamps a record, so no variable of the program
\* changes.
Expire(state) ==
    /\ state \in DOMAIN PKCE_STORE
    /\ state \notin expired
    /\ expired' = expired \cup {state}
    /\ UNCHANGED <<stores, tasks, response, issued_state, issued_session_id,
                   registered, obtained, created>>

NextTTL ==
    \/ Next
    \/ \E state \in States : Expire(state)

SpecTTL == Init /\ [][NextTTL]_vars

\* The SDK call a callback is suspended at ends: exchangeCodeForToken returns,
\* raises, or raises its timeout.
ExchangeEnds(t) ==
    \E outcome \in Outcomes, token \in Tokens, session_id \in Fresh(issued_session_id) :
        callback_return(t, outcome, token, session_id)

SpecLive == Spec /\ \A t \in Tasks : WF_vars(ExchangeEnds(t))

\* ================================================================ claims
\* Request r arrives in this step: it is answered at once (nothing is
\* suspended or resumed and the response is new) or it is suspended at its
\* await in a free task.
Arrives(r) ==
    \/ /\ tasks' = tasks
       /\ response' # response
       /\ r = response'
    \/ \E t \in Tasks : tasks[t] = Idle /\ tasks'[t] # Idle /\ r = tasks'[t]

StepRequests == {response'} \cup {tasks'[t] : t \in Tasks}

\* Request r was answered without being suspended, with this status.
AnsweredAtOnce(r, status) ==
    /\ r.pc = "done"
    /\ r.outcome = ""
    /\ r.status = status

\* The step in which suspended request t of the given kind gets its response.
Completes(t, kind) ==
    /\ tasks[t].kind = kind
    /\ tasks[t].pc = "await"
    /\ tasks'[t] = Idle

\* C1: whatever the interleaving of callbacks presenting the same code and
\* the same registered state, at most one of them obtains the state's code
\* verifier (no two are ever suspended holding it), and at most one session
\* is created for the state.
C1_OneCallbackPerState ==
    /\ \A s \in States : obtained[s] <= 1 /\ created[s] <= 1
    /\ \A t, u \in Tasks :
          (/\ t # u
           /\ tasks[t].kind = "callback"
           /\ tasks[u].kind = "callback"
           /\ tasks[t].state = tasks[u].state) => FALSE

\* A callback holds the verifier of state s and awaits the exchange, and a
\* second callback with the same code and state, arrived meanwhile, was
\* turned away (no response was sent since the login that registered s).
C1_Witness ==
    \E t \in Tasks :
        /\ tasks[t].kind = "callback"
        /\ tasks[t].pc = "await"
        /\ tasks[t].code_verifier \in Verifiers
        /\ response.kind = "callback"
        /\ response.detail = UnknownState
        /\ response.state = tasks[t].state
        /\ response.code = tasks[t].code
        /\ registered[tasks[t].state] = 1
        /\ obtained[tasks[t].state] = 1

\* C2: each registration of a state yields its code verifier to at most one
\* callback, and a callback presenting a state whose registrations have all
\* been consumed is answered 400, unknown or expired state, and obtains
\* nothing.
C2_TakeOnce ==
    /\ [](\A s \in States : obtained[s] <= registered[s])
    /\ [][\A r \in StepRequests :
            (/\ Arrives(r)
             /\ r.kind = "callback"
             /\ r.error = None /\ r.code \in Codes /\ r.state \in States
             /\ registered[r.state] >= 1
             /\ obtained[r.state] = registered[r.state])
            => (/\ AnsweredAtOnce(r, 400)
                /\ r.detail = UnknownState
                /\ obtained' = obtained)]_vars

\* A callback was answered unknown-state for a state that a login had
\* registered and an earlier callback, answered since, had consumed.
C2_Witness ==
    /\ response.kind = "callback"
    /\ response.detail = UnknownState
    /\ registered[response.state] = 1
    /\ obtained[response.state] = 1
    /\ \A t \in Tasks : tasks[t] = Idle

\* C3: a callback whose exchange returned adds exactly one new entry to the
\* session store, changes and removes no other entry, and is answered with a
\* redirect setting one session_id cookie, the new entry's identifier.
C3_OneSessionOneCookie ==
    [][\A t \in Tasks :
        (Completes(t, "callback") /\ response'.outcome = "ok")
        => \E sid \in SessionIds \ DOMAIN SESSION_STORE :
              /\ DOMAIN SESSION_STORE' = DOMAIN SESSION_STORE \cup {sid}
              /\ \A k \in DOMAIN SESSION_STORE : SESSION_STORE'[k] = SESSION_STORE[k]
              /\ response'.status = 307
              /\ response'.set_cookie = "set"
              /\ response'.cookie_value = sid]_vars

\* A second session has just been created next to an existing one.
C3_Witness ==
    /\ response.kind = "callback"
    /\ response.outcome = "ok"
    /\ response.set_cookie = "set"
    /\ response.cookie_value \in DOMAIN SESSION_STORE
    /\ Cardinality(DOMAIN SESSION_STORE) = 2

\* C4: once a revoke that found its session has been answered, the session
\* is absent from the session store and the response deletes the session_id
\* cookie, whether revokeToken returned, raised OAuthError or raised another
\* error.
C4_RevokeAlwaysClears ==
    (response.kind = "revoke" /\ response.outcome \in Outcomes)
    => (/\ response.session_id \notin DOMAIN SESSION_STORE
        /\ response.set_cookie = "deleted")

\* A revoke whose provider call raised a non-OAuth error has been answered.
C4_Witness ==
    /\ response.kind = "revoke"
    /\ response.outcome = "Exception"
    /\ response.revoked = "false"
    /\ issued_session_id[response.session_id] = 1

\* C5: a callback carrying a code and a state that is not in the PKCE store
\* is answered 400 at once and the session store is unchanged.
C5_UnknownStateRejected ==
    [][\A r \in StepRequests :
        (/\ Arrives(r)
         /\ r.kind = "callback"
         /\ r.code \notin {None, Empty}
         /\ r.state \notin {None, Empty}
         /\ r.state \notin DOMAIN PKCE_STORE)
        => (/\ AnsweredAtOnce(r, 400)
            /\ SESSION_STORE' = SESSION_STORE
            /\ created' = created)]_vars

\* A callback was turned away for a state that was never registered, while
\* a session exists that must stay as it is.
C5_Witness ==
    /\ response.kind = "callback"
    /\ response.detail = UnknownState
    /\ registered[response.state] = 0
    /\ SESSION_STORE # EmptyDict

\* C6: a callback in which code or state is missing or empty is answered 400
\* at once and creates no session.
C6_MissingRejected ==
    [][\A r \in StepRequests :
        (/\ Arrives(r)
         /\ r.kind = "callback"
         /\ (r.code \in {None, Empty} \/ r.state \in {None, Empty}))
        => (/\ AnsweredAtOnce(r, 400)
            /\ SESSION_STORE' = SESSION_STORE
            /\ created' = created)]_vars

\* A callback without a code was turned away although the state it carried
\* is registered; the record is still waiting for its callback.
C6_Witness ==
    /\ response.kind = "callback"
    /\ response.detail = "Missing code or state in callback"
    /\ response.code \in {None, Empty}
    /\ response.state \in DOMAIN PKCE_STORE

\* C7 as stated: me and tokens answer 401 when no session_id cookie is
\* presented and when the cookie's value is not in the session store.
C7_Original ==
    [][\A r \in StepRequests :
        (/\ Arrives(r)
         /\ r.kind \in {"me", "tokens"}
         /\ (r.session_id \in {None, Empty} \/ r.session_id \notin DOMAIN SESSION_STORE))
        => AnsweredAtOnce(r, 401)]_vars

\* C7 as amended: me answers 401 in both cases; tokens answers 401 when no
\* session_id cookie is presented and 404 when the cookie's value is not in
\* the session store.
C7_Amended ==
    [][\A r \in StepRequests :
        (/\ Arrives(r)
         /\ r.kind \in {"me", "tokens"}
         /\ (r.session_id \in {None, Empty} \/ r.session_id \notin DOMAIN SESSION_STORE))
        => AnsweredAtOnce(r, IF r.kind = "tokens" /\ r.session_id \notin {None, Empty}
                             THEN 404 ELSE 401)]_vars

\* tokens was asked with the cookie of a session that a revoke had deleted.
C7_Witness ==
    /\ response.kind = "tokens"
    /\ response.status = 404
    /\ issued_session_id[response.session_id] = 1
    /\ response.session_id \notin DOMAIN SESSION_STORE

\* C8 as stated: revoke answers 401 when no session_id cookie is presented
\* and when the cookie's value is not in the session store.
C8_Original ==
    [][\A r \in StepRequests :
        (/\ Arrives(r)
         /\ r.kind = "revoke"
         /\ (r.session_id \in {None, Empty} \/ r.session_id \notin DOMAIN SESSION_STORE))
        => AnsweredAtOnce(r, 401)]_vars

\* C8 as amended: revoke answers 401 when no session_id cookie is presented
\* and 400 when the cookie's value is not in the session store.
C8_Amended ==
    [][\A r \in StepRequests :
        (/\ Arrives(r)
         /\ r.kind = "revoke"
         /\ (r.session_id \in {None, Empty} \/ r.session_id \notin DOMAIN SESSION_STORE))
        => AnsweredAtOnce(r, IF r.session_id \in {None, Empty} THEN 401 ELSE 400)]_vars

\* A second revoke came with the cookie of a session already revoked.
C8_Witness ==
    /\ response.kind = "revoke"
    /\ response.status = 400
    /\ response.detail = "No token to revoke"
    /\ issued_session_id[response.session_id] = 1
    /\ response.session_id \notin DOMAIN SESSION_STORE

\* C9: no step of a me request changes the session store, and a me whose
\* getUserInfo raised OAuthError is answered 401.
C9_MeLeavesSessions ==
    [][/\ \A r \in StepRequests :
            (Arrives(r) /\ r.kind = "me") => SESSION_STORE' = SESSION_STORE
       /\ \A t \in Tasks :
            Completes(t, "me")
            => (/\ SESSION_STORE' = SESSION_STORE
                /\ response'.outcome = "OAuthError" => response'.status = 401)]_vars

\* A me was answered 401 after the provider refused the token, and its
\* session is still stored with the token the request read.
C9_Witness ==
    /\ response.kind = "me"
    /\ response.outcome = "OAuthError"
    /\ response.status = 401
    /\ response.session_id \in DOMAIN SESSION_STORE
    /\ SESSION_STORE[response.session_id].token.access_token = response.access_token

\* C10 as stated: a login about to register a state that is already in the
\* PKCE store is answered with an error and leaves the store as it is.
C10_Original ==
    [][\A t \in Tasks, cv \in Verifiers :
        (login_return(t, cv) /\ tasks[t].state \in DOMAIN PKCE_STORE)
        => (/\ response'.status >= 400
            /\ PKCE_STORE' = PKCE_STORE)]_vars
\* ---------------------------------------------------------------- C11
\* C11: when get_auth_url gives /login no code verifier (None or an empty
\* one), the request is answered 500, PKCE_STORE gains no record and the
\* response is not the redirect to the provider.
C11_NoVerifierFails ==
    [][\A t \in Tasks, cv \in {None, Empty} :
          login_return(t, cv) =>
              /\ response'.kind = "login"
              /\ response'.status = 500
              /\ response'.detail = "PKCE code verifier not generated"
              /\ PKCE_STORE' = PKCE_STORE
              /\ registered' = registered]_vars

C11_Witness ==
    /\ response.kind = "login"
    /\ response.status = 500
    /\ response.detail = "PKCE code verifier not generated"
    /\ response.state \notin DOMAIN PKCE_STORE
    /\ registered[response.state] = 0

\* ---------------------------------------------------------------- C12
\* C12: an entry of SESSION_STORE is written only by the step in which a
\* /callback whose exchange returned successfully is answered, under the
\* session id that step sets as the cookie, and every entry is exactly one
\* token record holding the token of that exchange.
C12_SessionsFromExchanges ==
    [][\A sid \in DOMAIN SESSION_STORE' :
          (sid \notin DOMAIN SESSION_STORE \/ SESSION_STORE'[sid] # SESSION_STORE[sid])
          => /\ \E t \in Tasks : Completes(t, "callback")
             /\ response'.outcome = "ok"
             /\ response'.cookie_value = sid
             /\ DOMAIN SESSION_STORE'[sid] = {"token"}
             /\ SESSION_STORE'[sid].token.access_token \in Tokens]_vars

C12_Witness ==
    /\ Cardinality(DOMAIN SESSION_STORE) = 1
    /\ response.kind = "callback"
    /\ response.outcome = "Exception"
    /\ \A sid \in DOMAIN SESSION_STORE : DOMAIN SESSION_STORE[sid] = {"token"}

\* ---------------------------------------------------------------- C13
\* C13: a /callback whose exchange raised OAuthError is answered 400, one
\* whose exchange raised anything else is answered 500; in both cases
\* SESSION_STORE is unchanged and the response sets no cookie.
C13_ExchangeFailure ==
    [][\A t \in Tasks :
          (Completes(t, "callback") /\ response'.outcome # "ok") =>
              /\ response'.outcome = "OAuthError" => response'.status = 400
              /\ response'.outcome = "Exception" => response'.status = 500
              /\ SESSION_STORE' = SESSION_STORE
              /\ created' = created
              /\ response'.set_cookie = ""
              /\ response'.cookie_value = None]_vars

C13_Witness ==
    /\ response.kind = "callback"
    /\ response.outcome = "OAuthError"
    /\ response.status = 400
    /\ response.state \in States
    /\ created[response.state] = 0

\* ---------------------------------------------------------------- C14
\* C14: /callback checks the error parameter, then code and state, then the
\* state's record, and only then starts the exchange. A request failing a
\* check is answered at once with that check's failure; one that carries an
\* error parameter is answered 400 "provider error" whatever its code and
\* state, leaves PKCE_STORE as it was and never reaches the provider.
C14_CheckOrder ==
    [][\A r \in StepRequests :
          (Arrives(r) /\ r.kind = "callback") =>
              IF r.error \in Errors
              THEN /\ AnsweredAtOnce(r, 400)
                   /\ r.detail = "provider error"
                   /\ PKCE_STORE' = PKCE_STORE
                   /\ obtained' = obtained
              ELSE IF r.code \notin Codes \/ r.state \notin States
              THEN /\ AnsweredAtOnce(r, 400)
                   /\ r.detail = "Missing code or state in callback"
                   /\ PKCE_STORE' = PKCE_STORE
                   /\ obtained' = obtained
              ELSE IF r.state \notin DOMAIN PKCE_STORE
              THEN /\ AnsweredAtOnce(r, 400)
                   /\ r.detail = UnknownState
                   /\ obtained' = obtained
              ELSE /\ r.pc = "await"
                   /\ r.code_verifier = PKCE_STORE[r.state]
                   /\ r.state \notin DOMAIN PKCE_STORE']_vars

C14_Witness ==
    /\ response.kind = "callback"
    /\ response.error \in Errors
    /\ response.code \in Codes
    /\ response.state \in DOMAIN PKCE_STORE
    /\ response.status = 400
    /\ response.outcome = ""

\* ---------------------------------------------------------------- C15
\* C15: a /login answered with the redirect to the provider has added to
\* PKCE_STORE exactly one record, from the state it generated and passed to
\* get_auth_url to the code verifier the SDK returned, and has left
\* SESSION_STORE unchanged.
C15_LoginAddsOneRecord ==
    [][\A t \in Tasks :
          (Completes(t, "login") /\ response'.status = 307) =>
              /\ tasks[t].state \notin DOMAIN PKCE_STORE
              /\ response'.state = tasks[t].state
              /\ response'.code_verifier \in Verifiers
              /\ PKCE_STORE' = DictSet(PKCE_STORE, tasks[t].state, response'.code_verifier)
              /\ DOMAIN PKCE_STORE' = DOMAIN PKCE_STORE \cup {tasks[t].state}
              /\ SESSION_STORE' = SESSION_STORE]_vars

C15_Witness ==
    /\ response.kind = "login"
    /\ response.status = 307
    /\ response.state \in DOMAIN PKCE_STORE
    /\ PKCE_STORE[response.state] = response.code_verifier
    /\ SESSION_STORE # EmptyDict

\* ---------------------------------------------------------------- C16
\* C16: a /callback presenting a state whose record is older than the TTL
\* is answered 400 with the unknown-or-expired-state failure, without
\* reaching the exchange.
C16_Original ==
    [][\A r \in StepRequests :
          (/\ Arrives(r)
           /\ r.kind = "callback"
           /\ r.error \notin Errors
           /\ r.code \in Codes
           /\ r.state \in expired)
          => /\ AnsweredAtOnce(r, 400)
             /\ r.detail = UnknownState]_vars

\* ---------------------------------------------------------------- C17
\* C17: a /revoke that is answered leaves its session absent from
\* SESSION_STORE, a session once removed stays absent, and no /me or /tokens
\* step, arriving or completing, changes SESSION_STORE.
C17_RevokeNotLost ==
    [][/\ \A sid \in SessionIds :
              (issued_session_id[sid] >= 1 /\ sid \notin DOMAIN SESSION_STORE)
              => sid \notin DOMAIN SESSION_STORE'
       /\ \A t \in Tasks :
              /\ Completes(t, "revoke") => tasks[t].session_id \notin DOMAIN SESSION_STORE'
              /\ Completes(t, "me") => SESSION_STORE' = SESSION_STORE
       /\ \A r \in StepRequests :
              (Arrives(r) /\ r.kind \in {"me", "tokens"}) => SESSION_STORE' = SESSION_STORE]_vars

C17_Witness ==
    /\ response.kind = "me"
    /\ response.outcome = "ok"
    /\ response.session_id \in SessionIds
    /\ issued_session_id[response.session_id] >= 1
    /\ response.session_id \notin DOMAIN SESSION_STORE

\* ---------------------------------------------------------------- C18
\* C18: a /callback suspended at the exchange is eventually answered, given
\* that the exchange ends; the answer is the 307 redirect with a session
\* cookie, a 400 or a 500, and an exchange that ended with anything but a
\* result or an OAuthError (a timeout among them) is answered 5xx.
C18_CallbackAnswered ==
    /\ \A t \in Tasks : (tasks[t].kind = "callback") ~> (tasks[t] = Idle)
    /\ [][\A t \in Tasks :
              Completes(t, "callback") =>
                  /\ response'.kind = "callback"
                  /\ response'.state = tasks[t].state
                  /\ response'.pc = "done"
                  /\ response'.status \in {307, 400, 500}
                  /\ response'.status = 307 => response'.set_cookie = "set"
                  /\ response'.outcome = "Exception" => response'.status \in 500..599]_vars

C18_Witness ==
    /\ response.kind = "callback"
    /\ response.outcome = "Exception"
    /\ response.status = 500
    /\ \A t \in Tasks : tasks[t] = Idle

\* ---------------------------------------------------------------- C19
\* C19: the record of a state is out of PKCE_STORE from the moment its
\* /callback passes the state lookup: it is absent while the exchange is
\* pending and after the exchange failed, the end of the exchange puts
\* nothing back, the failed state has created no session, and a later
\* /callback with that state and a code is answered 400 with the unknown-state
\* failure and creates nothing.
C19_RecordGoneBeforeExchange ==
    /\ [](\A t \in Tasks :
              tasks[t].kind = "callback" => tasks[t].state \notin DOMAIN PKCE_STORE)
    /\ []((response.kind = "callback" /\ response.outcome \in {"OAuthError", "Exception"})
              => /\ response.state \notin DOMAIN PKCE_STORE
                 /\ created[response.state] = 0)
    /\ [][/\ \A t \in Tasks : Completes(t, "callback") => PKCE_STORE' = PKCE_STORE
          /\ \A r \in StepRequests :
                 (/\ Arrives(r)
                  /\ r.kind = "callback"
                  /\ r.error \notin Errors
                  /\ r.code \in Codes
                  /\ r.state \in States
                  /\ obtained[r.state] >= 1)
                 => /\ AnsweredAtOnce(r, 400)
                    /\ r.detail = UnknownState
                    /\ SESSION_STORE' = SESSION_STORE
                    /\ created' = created]_vars

C19_Witness ==
    /\ response.kind = "callback"
    /\ response.detail = UnknownState
    /\ response.code \in Codes
    /\ response.state \in States
    /\ obtained[response.state] = 1
    /\ created[response.state] = 0
    /\ \A t \in Tasks : tasks[t] = Idle

\* ---------------------------------------------------------------- C20
\* C20: /revoke removes nothing when it arrives; a session leaves
\* SESSION_STORE only in the step in which a /revoke on it is answered, after
\* revokeToken ended. Until then a /me, /tokens or further /revoke arriving
\* with that cookie finds the session: /tokens is answered 200 with the
\* token, /me and the further /revoke are suspended at their SDK call with
\* the session's access token.
C20_RevokeRemovesLate ==
    [][/\ \A sid \in DOMAIN SESSION_STORE :
              sid \notin DOMAIN SESSION_STORE'
              => \E t \in Tasks : Completes(t, "revoke") /\ tasks[t].session_id = sid
       /\ \A r \in StepRequests :
              (/\ Arrives(r)
               /\ r.kind \in {"me", "tokens", "revoke"}
               /\ r.session_id \in DOMAIN SESSION_STORE)
              => /\ SESSION_STORE' = SESSION_STORE
                 /\ r.kind = "tokens" =>
                        r.status = 200 /\ r.token_out = AccessToken(r.session_id)
                 /\ r.kind \in {"me", "revoke"} =>
                        r.pc = "await" /\ r.access_token = AccessToken(r.session_id)]_vars

C20_Witness ==
    \E t1, t2 \in Tasks :
        /\ t1 # t2
        /\ tasks[t1].kind = "revoke"
        /\ tasks[t2].kind = "revoke"
        /\ tasks[t1].session_id = tasks[t2].session_id
        /\ tasks[t1].session_id \in DOMAIN SESSION_STORE

====
